---- MODULE Spec2Model ----
(***************************************************************************)
(* The physics worker of src/components/EngineView.tsx                     *)
(* (PHYSICS_WORKER_CODE): a substepped position-based-dynamics solver for  *)
(* spheres, driven by INIT / SPAWN / STEP / EXPLOSION / RESET messages.    *)
(*                                                                         *)
(* Numbers.  The worker keeps pos, prevPos and vel in Float32Arrays and    *)
(* computes in doubles.  The model keeps every length and velocity as an   *)
(* integer number of millionths of a simulation unit (Scale units = 1.0),  *)
(* rounding each stored result to the nearest unit.  The pair pass takes   *)
(* its square root on lengths coarsened to 1/10000 of a unit so that the   *)
(* sum of three squares stays inside TLC's 32-bit integers; its results    *)
(* carry that resolution.  dt is counted in halves of a time unit.         *)
(***************************************************************************)
EXTENDS Integers, Sequences, FiniteSets, TLC

VARIABLES
    objects,    \* the worker's body list (line 16)
    msg,        \* e.data of the message being handled / last handled (line 23)
    pc,         \* "idle": between messages; "step": inside the STEP substep loop
    s,          \* substep counter of the STEP loop (line 51)
    sent,       \* UPDATE messages posted to the main thread, oldest first (line 153)
    tick0,      \* history: the body list as it was when the last message arrived
    ncmd,       \* number of messages received so far (bounds the exploration)
    posted,     \* messages posted to the worker and not yet handled, oldest first
    meshes,     \* the main thread's meshesRef.current (line 256)
    owner       \* history: for each body in store order, the mesh created with it

vars == <<objects, msg, pc, s, sent, tick0, ncmd, posted, meshes, owner>>

\* the main thread's side and the message port
mainVars == <<posted, meshes, owner>>

-----------------------------------------------------------------------------
(* Fixed-point arithmetic *)

Scale == 1000 * 1000
Coarse == 100
DtDen == 2

Abs(a) == IF a < 0 THEN -a ELSE a
Sign(a) == IF a > 0 THEN 1 ELSE IF a < 0 THEN -1 ELSE 0

\* a / b rounded to the nearest integer (b > 0), halves rounded up
RoundDiv(a, b) == (2 * a + b) \div (2 * b)

\* a / b for any nonzero b, rounded to nearest
Quot(a, b) == IF b > 0 THEN RoundDiv(a, b) ELSE RoundDiv(-a, -b)

\* v * num / den rounded to nearest, without forming v * num for a large v
MulFrac(v, num, den) ==
    (v \div den) * num + RoundDiv((v % den) * num, den)

\* floor of the square root of n >= 0
RECURSIVE SqrtIter(_, _, _)
SqrtIter(n, lo, hi) ==
    IF lo >= hi THEN lo
    ELSE LET mid == (lo + hi + 1) \div 2
         IN IF mid * mid <= n THEN SqrtIter(n, mid, hi)
                              ELSE SqrtIter(n, lo, mid - 1)
Sqrt(n) == SqrtIter(n, 0, 46340)

\* nearest integer to the square root of n >= 0
SqrtNear(n) == LET r == Sqrt(n) IN IF n - r * r > r THEN r + 1 ELSE r

-----------------------------------------------------------------------------
(* Constants of the worker *)

WORLD_SIZE == 25
\* GRAVITY = -9.81 * 0.001 per unit time squared, in millionths
GRAVITY == -9810
\* DAMPING = 0.995, in thousandths
DAMPING == 995
\* FRICTION = 0.95, in hundredths
FRICTION == 95
substeps == 12
iterations == 4
\* the zero snap threshold 0.001, in millionths
SnapBelow == 1000
\* the coincidence threshold 0.00001 on distSq, in units of Coarse^2 / Scale^2
DistSqMin == 1000
\* objects.slice(0, 35)
ResetKeep == 35
\* const force = 3.5, in tenths
force == 35

World == WORLD_SIZE * Scale

-----------------------------------------------------------------------------
(* Bodies *)

X == 1
Y == 2
Z == 3

\* The object literal built by INIT and SPAWN from one payload entry.  An entry
\* without a radius gives a body whose radius is undefined: a body record
\* without the field.
NewBody(obj) ==
    IF "radius" \in DOMAIN obj
    THEN [pos |-> obj.pos, prevPos |-> obj.pos, vel |-> obj.vel,
          radius |-> obj.radius, invMass |-> 1]
    ELSE [pos |-> obj.pos, prevPos |-> obj.pos, vel |-> obj.vel, invMass |-> 1]

\* obj.radius is a number (a comparison with undefined or NaN is false)
HasRadius(obj) == "radius" \in DOMAIN obj

\* payload.dt || 1.0 : an absent or zero dt becomes 1.0
EffectiveDt(payload) ==
    IF "dt" \notin DOMAIN payload \/ payload.dt = 0 THEN DtDen ELSE payload.dt

\* v * h for h = dt / substeps
TimesH(v, dt) == Quot(v * dt, DtDen * substeps)

\* d / h for h = dt / substeps
OverH(d, dt) == Quot(d * DtDen * substeps, dt)

\* 1. Prediction step for one body (lines 54-72)
PredictPositionFirst(obj, dt) ==
    LET vy == obj.vel[Y] + TimesH(GRAVITY, dt)
    IN [obj EXCEPT !.vel = << MulFrac(obj.vel[X], DAMPING, 1000),
                              MulFrac(vy, DAMPING, 1000),
                              MulFrac(obj.vel[Z], DAMPING, 1000) >>,
                   !.prevPos = obj.pos,
                   !.pos = << obj.pos[X] + TimesH(obj.vel[X], dt),
                              obj.pos[Y] + TimesH(obj.vel[Y], dt),
                              obj.pos[Z] + TimesH(obj.vel[Z], dt) >>]
Predict(obj, dt) ==
    LET vy  == obj.vel[Y] + TimesH(GRAVITY, dt)
        vel == << MulFrac(obj.vel[X], DAMPING, 1000),
                  MulFrac(vy, DAMPING, 1000),
                  MulFrac(obj.vel[Z], DAMPING, 1000) >>
    IN [obj EXCEPT !.vel = vel,
                   !.prevPos = obj.pos,
                   !.pos = << obj.pos[X] + TimesH(vel[X], dt),
                              obj.pos[Y] + TimesH(vel[Y], dt),
                              obj.pos[Z] + TimesH(vel[Z], dt) >>]

\* Floor constraint (lines 83-87)
FloorConstraint(obj) ==
    IF HasRadius(obj) /\ obj.pos[Y] < obj.radius
    THEN [obj EXCEPT !.pos[Y] = obj.radius,
                     !.vel[X] = MulFrac(obj.vel[X], FRICTION, 100),
                     !.vel[Z] = MulFrac(obj.vel[Z], FRICTION, 100)]
    ELSE obj

\* Boundary constraint on one horizontal axis (lines 90-97)
WallConstraint(obj, k) ==
    IF Abs(obj.pos[k]) > World
    THEN [obj EXCEPT !.pos[k] = Sign(obj.pos[k]) * World,
                     !.vel[k] = -RoundDiv(obj.vel[k], 2)]
    ELSE obj

\* Environment constraints for one body (lines 80-97)
EnvConstraints(obj) == WallConstraint(WallConstraint(FloorConstraint(obj), X), Z)

\* Whether the pair test of line 111 can pass at all: distSq < minDist^2 needs
\* every component below |minDist| in magnitude.
Near(a, b) ==
    LET minDist == Abs(a.radius + b.radius)
    IN /\ HasRadius(a) /\ HasRadius(b)
       /\ Abs(b.pos[X] - a.pos[X]) < minDist
       /\ Abs(b.pos[Y] - a.pos[Y]) < minDist
       /\ Abs(b.pos[Z] - a.pos[Z]) < minDist

\* corrA = overlap * (a.invMass / totalInvMass) (line 119)
CorrASwapped(overlap, a, b) ==
    Quot(overlap * b.invMass, a.invMass + b.invMass)
CorrA(overlap, a, b) ==
    Quot(overlap * a.invMass, a.invMass + b.invMass)

\* corrB = overlap * (b.invMass / totalInvMass) (line 120)
CorrBOverA(overlap, a, b) ==
    IF a.invMass = 0 THEN 0 ELSE Quot(overlap * b.invMass, a.invMass)
CorrB(overlap, a, b) ==
    Quot(overlap * b.invMass, a.invMass + b.invMass)

\* The pair correction of lines 105-129 for bodies a (index i) and b (index j > i):
\* the pair <<a', b'>>.
ResolvePair(a, b) ==
    IF ~Near(a, b) THEN <<a, b>>
    ELSE
    LET dx == RoundDiv(b.pos[X] - a.pos[X], Coarse)
        dy == RoundDiv(b.pos[Y] - a.pos[Y], Coarse)
        dz == RoundDiv(b.pos[Z] - a.pos[Z], Coarse)
        distSq  == dx * dx + dy * dy + dz * dz
        minDist == a.radius + b.radius
        minC    == RoundDiv(minDist, Coarse)
    IN IF distSq < minC * minC /\ distSq > DistSqMin
       THEN LET dist == SqrtNear(distSq)
                overlap == minDist - dist * Coarse
                corrA == CorrA(overlap, a, b)
                corrB == CorrB(overlap, a, b)
            IN << [a EXCEPT !.pos = << a.pos[X] - MulFrac(corrA, dx, dist),
                                       a.pos[Y] - MulFrac(corrA, dy, dist),
                                       a.pos[Z] - MulFrac(corrA, dz, dist) >>],
                  [b EXCEPT !.pos = << b.pos[X] + MulFrac(corrB, dx, dist),
                                       b.pos[Y] + MulFrac(corrB, dy, dist),
                                       b.pos[Z] + MulFrac(corrB, dz, dist) >>] >>
       ELSE <<a, b>>

\* 3. Velocity update for one body (lines 136-143)
SnapNever(v) == v
SnapZero(v) == IF Abs(v) < SnapBelow THEN 0 ELSE v

VelocityUpdate(obj, dt) ==
    [obj EXCEPT !.vel = << SnapZero(OverH(obj.pos[X] - obj.prevPos[X], dt)),
                           SnapZero(OverH(obj.pos[Y] - obj.prevPos[Y], dt)),
                           SnapZero(OverH(obj.pos[Z] - obj.prevPos[Z], dt)) >>]

-----------------------------------------------------------------------------
(* The loops of one substep, over the body list in store order *)

RECURSIVE PredictAll(_, _, _)
PredictAll(objs, dt, i) ==
    IF i > Len(objs) THEN objs
    ELSE PredictAll([objs EXCEPT ![i] = Predict(objs[i], dt)], dt, i + 1)

RECURSIVE EnvAll(_, _)
EnvAll(objs, i) ==
    IF i > Len(objs) THEN objs
    ELSE EnvAll([objs EXCEPT ![i] = EnvConstraints(objs[i])], i + 1)

\* for i, for j = i + 1 .. : every unordered pair once, each on the positions
\* the earlier pairs left (lines 101-131)
\* the inner loop: body i against bodies j, j + 1, ...
RECURSIVE PairRow(_, _, _)
PairRow(objs, i, j) ==
    IF j > Len(objs) THEN objs
    ELSE LET r == ResolvePair(objs[i], objs[j])
         IN PairRow([objs EXCEPT ![i] = r[1], ![j] = r[2]], i, j + 1)

\* the outer loop, from body i on, its first row starting at j
RECURSIVE PairAll(_, _, _)
PairAll(objs, i, j) ==
    IF i > Len(objs) THEN objs
    ELSE LET row == PairRow(objs, i, j)
         IN IF Len(row) = Len(objs) THEN PairAll(row, i + 1, i + 2) ELSE row

\* One constraint iteration: environment, then pairs (lines 78-131)
IterationPairsFirst(objs) == EnvAll(PairAll(objs, 1, 2), 1)
Iteration(objs) == PairAll(EnvAll(objs, 1), 1, 2)

RECURSIVE Iterate(_, _)
Iterate(objs, it) ==
    IF it >= iterations THEN objs ELSE Iterate(Iteration(objs), it + 1)

RECURSIVE VelocityAll(_, _, _)
VelocityAll(objs, dt, i) ==
    IF i > Len(objs) THEN objs
    ELSE VelocityAll([objs EXCEPT ![i] = VelocityUpdate(objs[i], dt)], dt, i + 1)

\* One pass of the substep loop body (lines 52-144)
Substep(objs, dt) ==
    VelocityAll(Iterate(PredictAll(objs, dt, 1), 0), dt, 1)

\* The whole substep loop of case 'STEP' (lines 51-145)
RECURSIVE Advance(_, _, _)
Advance(objs, dt, k) ==
    IF k >= substeps THEN objs
    ELSE LET next == Substep(objs, dt)
         IN IF Len(next) = Len(objs) THEN Advance(next, dt, k + 1) ELSE next

\* The positions array of the UPDATE message (lines 147-152)
RECURSIVE PositionsStale(_, _)
PositionsStale(objs, i) ==
    IF i > Len(objs) THEN <<>>
    ELSE objs[i].prevPos \o PositionsStale(objs, i + 1)
RECURSIVE Positions(_, _)
Positions(objs, i) ==
    IF i > Len(objs) THEN <<>>
    ELSE objs[i].pos \o Positions(objs, i + 1)

-----------------------------------------------------------------------------
(* Message handlers on the body list *)

\* Math.random(): the k-th call of a handler whose calls start at place seed of
\* RandTable, a value in [0, 1) in millionths.
RandTable == << 0, 999999, 500000, 250000, 750000 >>
Random(seed, k) == RandTable[((seed + k) % Len(RandTable)) + 1]

\* case 'INIT' (lines 26-34)
RECURSIVE InitBodies(_, _)
InitBodies(payload, i) ==
    IF i > Len(payload) THEN <<>>
    ELSE <<NewBody(payload[i])>> \o InitBodies(payload, i + 1)

\* case 'SPAWN' (lines 36-44)
SpawnBodyFirst(objs, payload) == <<NewBody(payload)>> \o objs
SpawnBody(objs, payload) == Append(objs, NewBody(payload))

\* case 'EXPLOSION' (lines 156-163); body i draws the calls 3(i-1) .. 3(i-1)+2
ExplodeSymmetric(obj, seed, i) ==
    LET k == 3 * (i - 1)
    IN [obj EXCEPT
          !.vel = << obj.vel[X] + RoundDiv((Random(seed, k) - Scale \div 2) * force, 10),
                     obj.vel[Y] + RoundDiv((Random(seed, k + 1) - Scale \div 2) * force * 15, 100),
                     obj.vel[Z] + RoundDiv((Random(seed, k + 2) - Scale \div 2) * force, 10) >>]
Explode(obj, seed, i) ==
    LET k == 3 * (i - 1)
    IN [obj EXCEPT
          !.vel = << obj.vel[X] + RoundDiv((Random(seed, k) - Scale \div 2) * force, 10),
                     obj.vel[Y] + RoundDiv(Random(seed, k + 1) * force * 15, 100),
                     obj.vel[Z] + RoundDiv((Random(seed, k + 2) - Scale \div 2) * force, 10) >>]

RECURSIVE ExplodeAll(_, _, _)
ExplodeAll(objs, seed, i) ==
    IF i > Len(objs) THEN objs
    ELSE ExplodeAll([objs EXCEPT ![i] = Explode(objs[i], seed, i)], seed, i + 1)

\* case 'RESET' (lines 165-173)
TruncateNone(objs) == objs
Truncate(objs) == SubSeq(objs, 1, IF Len(objs) < ResetKeep THEN Len(objs) ELSE ResetKeep)

Respawn(obj, seed, i) ==
    LET k == 3 * (i - 1)
    IN [obj EXCEPT
          !.pos = << (Random(seed, k) - Scale \div 2) * 5,
                     10 * Scale + Random(seed, k + 1) * 20,
                     (Random(seed, k + 2) - Scale \div 2) * 5 >>,
          !.vel = << 0, 0, 0 >>]

RECURSIVE RespawnAll(_, _, _)
RespawnAll(objs, seed, i) ==
    IF i > Len(objs) THEN objs
    ELSE RespawnAll([objs EXCEPT ![i] = Respawn(objs[i], seed, i)], seed, i + 1)

ResetBodies(objs, seed) == RespawnAll(Truncate(objs), seed, 1)

-----------------------------------------------------------------------------
(* Inputs *)

MaxBodies == 3
MaxCmds == 3

Milli == Scale \div 1000
P(x, y, z) == << x * Milli, y * Milli, z * Milli >>
Ball(pos, vel) == [pos |-> pos, vel |-> vel, radius |-> Scale]

\* one body at [0,10,0], at rest
OneBody == << Ball(P(0, 10000, 0), P(0, 0, 0)) >>
\* two bodies with centers 1.5 apart on a horizontal line, at rest
PairX == << Ball(P(0, 20000, 0), P(0, 0, 0)), Ball(P(1500, 20000, 0), P(0, 0, 0)) >>
\* the same, the line at an angle in the horizontal plane (0.9, 1.2)
PairXZ == << Ball(P(-3000, 20000, 4000), P(0, 0, 0)), Ball(P(-2100, 20000, 5200), P(0, 0, 0)) >>
\* a body resting on the floor and one thrown down at it
Thrown == << Ball(P(0, 1000, 0), P(0, 0, 0)), Ball(P(0, 13700, 0), P(0, -12000, 0)) >>
\* a body resting against the wall x = WORLD_SIZE and one thrown at it
ThrownAtWall == << Ball(P(25000, 5000, 0), P(0, 0, 0)), Ball(P(12300, 5000, 0), P(12000, 0, 0)) >>
\* two bodies with the same center
Coincident == << Ball(P(0, 5000, 0), P(0, 0, 0)), Ball(P(0, 5000, 0), P(0, 0, 0)) >>
\* a column of two resting bodies and a third thrown down on it
Column == << Ball(P(0, 1000, 0), P(0, 0, 0)), Ball(P(0, 3000, 0), P(0, 0, 0)),
             Ball(P(0, 15700, 0), P(0, -12000, 0)) >>

\* a unit ball and an overlapping body whose radius is negative
BadRadius == << Ball(P(0, 5000, 0), P(0, 0, 0)),
                [pos |-> P(300, 5000, 0), vel |-> P(0, 0, 0), radius |-> -(Scale \div 2)] >>

\* a body sliding on the floor along z, and a body in the air flying at the
\* wall x = WORLD_SIZE, far from each other
SlideAndBounce ==
    << Ball(P(0, 1000, 0), P(0, 0, 3000)), Ball(P(24900, 10000, 0), P(6000, 0, 0)) >>

InitPayloads ==
    { OneBody, PairX, PairXZ, Thrown, ThrownAtWall, Coincident, Column, BadRadius,
      SlideAndBounce }

SpawnPayloads ==
    { [pos |-> P(500, 25000, -500), vel |-> P(50, -100, -50), radius |-> Scale],
      [pos |-> P(0, 25000, 0), vel |-> P(0, -100, 0), radius |-> 0] }

\* dt = 1.0 (animate, line 382), 0.5, -1.0, 0, and a payload without dt
StepPayloads == { [dt |-> DtDen], [dt |-> 1], [dt |-> -DtDen], [dt |-> 0], [frame |-> 1] }

Seeds == { 0, 1 }

-----------------------------------------------------------------------------
(* The worker: self.onmessage (lines 22-175) *)

\* the worker alone: nothing is queued, each message is handled as it arrives
NoMain == posted = <<>> /\ meshes = <<>> /\ owner = <<>>

Init ==
    /\ objects = <<>>
    /\ msg = [type |-> "NONE"]
    /\ pc = "idle"
    /\ s = 0
    /\ sent = <<>>
    /\ tick0 = <<>>
    /\ ncmd = 0
    /\ NoMain

Receive(m) ==
    /\ pc = "idle"
    /\ ncmd < MaxCmds
    /\ msg' = m
    /\ tick0' = objects
    /\ ncmd' = ncmd + 1
    /\ UNCHANGED mainVars

INIT ==
    \E payload \in InitPayloads :
        /\ Receive([type |-> "INIT", payload |-> payload])
        /\ objects' = InitBodies(payload, 1)
        /\ UNCHANGED <<pc, s, sent>>

SPAWN ==
    \E payload \in SpawnPayloads :
        /\ Len(objects) < MaxBodies
        /\ Receive([type |-> "SPAWN", payload |-> payload])
        /\ objects' = SpawnBody(objects, payload)
        /\ UNCHANGED <<pc, s, sent>>

\* case 'STEP': dt, substeps and h are set and the substep loop is entered
STEP ==
    \E payload \in StepPayloads :
        /\ Receive([type |-> "STEP", payload |-> payload])
        /\ pc' = "step"
        /\ s' = 0
        /\ UNCHANGED <<objects, sent>>

\* one pass of for (let s = 0; s < substeps; s++)
SubstepLoop ==
    /\ pc = "step"
    /\ s < substeps
    /\ objects' = Substep(objects, EffectiveDt(msg.payload))
    /\ s' = s + 1
    /\ UNCHANGED <<msg, pc, sent, tick0, ncmd, mainVars>>

\* the loop is over: the positions are copied and posted (lines 147-154); owners
\* is history, the meshes made with the bodies the positions are of
PostUpdate ==
    /\ pc = "step"
    /\ s = substeps
    /\ sent' = Append(sent, [type |-> "UPDATE", positions |-> Positions(objects, 1),
                             owners |-> owner])
    /\ pc' = "idle"
    /\ UNCHANGED <<objects, msg, s, tick0, ncmd, mainVars>>

EXPLOSION ==
    \E seed \in Seeds :
        /\ Receive([type |-> "EXPLOSION", seed |-> seed])
        /\ objects' = ExplodeAll(objects, seed, 1)
        /\ UNCHANGED <<pc, s, sent>>

RESET ==
    \E seed \in Seeds :
        /\ Receive([type |-> "RESET", seed |-> seed])
        /\ objects' = ResetBodies(objects, seed)
        /\ UNCHANGED <<pc, s, sent>>

Next == INIT \/ SPAWN \/ STEP \/ SubstepLoop \/ PostUpdate \/ EXPLOSION \/ RESET

Spec == Init /\ [][Next]_vars

-----------------------------------------------------------------------------
(* Properties of a completed STEP *)

\* the tolerance of the claims: 0.001
Eps == Milli

N == Len(objects)
Bodies == 1 .. N

\* a STEP has run to its end and nothing came after it
StepDone == pc = "idle" /\ msg.type = "STEP"

Contained(obj) ==
    /\ obj.pos[Y] >= obj.radius - Eps
    /\ Abs(obj.pos[X]) <= World + Eps
    /\ Abs(obj.pos[Z]) <= World + Eps

\* squared center distance of a Near pair, in units of Coarse^2
DistSqC(a, b) ==
    LET dx == RoundDiv(b.pos[X] - a.pos[X], Coarse)
        dy == RoundDiv(b.pos[Y] - a.pos[Y], Coarse)
        dz == RoundDiv(b.pos[Z] - a.pos[Z], Coarse)
    IN dx * dx + dy * dy + dz * dz

\* center distance >= radius_a + radius_b - Eps
Apart(a, b) ==
    LET lim == a.radius + b.radius - Eps
    IN \/ lim <= 0
       \/ Abs(b.pos[X] - a.pos[X]) >= lim
       \/ Abs(b.pos[Y] - a.pos[Y]) >= lim
       \/ Abs(b.pos[Z] - a.pos[Z]) >= lim
       \/ LET limC == lim \div Coarse IN DistSqC(a, b) >= limC * limC

\* the pair test of line 111 skips the pair as coincident
Degenerate(a, b) == Near(a, b) /\ DistSqC(a, b) <= DistSqMin

(* C1 (as claimed): after every completed STEP every body is above the floor
   and inside the walls, within Eps. *)
C1_Containment == StepDone => \A i \in Bodies : Contained(objects[i])

(* C2 (as claimed): after every completed STEP every pair of distinct bodies
   is at least radius_a + radius_b - Eps apart, for any number of bodies and
   also for coincident centers. *)
C2_NonPenetration ==
    StepDone => \A i, j \in Bodies : i < j => Apart(objects[i], objects[j])

(* C2 (amended): after every completed STEP on a store of exactly two bodies,
   the two are at least radius_a + radius_b - Eps apart unless the pair test
   skips them as coincident (squared distance at most 0.00001). *)
C2_TwoBodiesApart ==
    (StepDone /\ N = 2) =>
        Apart(objects[1], objects[2]) \/ Degenerate(objects[1], objects[2])

\* a STEP ended in which the two bodies of the store were pushed apart by the
\* pair pass of its last substep
C2_Witness ==
    /\ StepDone /\ N = 2
    /\ Near(objects[1], objects[2])
    /\ ~Degenerate(objects[1], objects[2])
    /\ objects[1].pos[Y] < objects[1].radius

-----------------------------------------------------------------------------
(* Invalid bodies *)

InvalidBody(obj) == obj.radius <= 0

(* C5 (as claimed): an INIT or SPAWN carrying a body of zero or negative
   radius is rejected and leaves the store as it was, so every stored body has
   radius > 0. *)
C5_InvalidBodyRejected ==
    /\ \A i \in Bodies : objects[i].radius > 0
    /\ (msg.type = "SPAWN" /\ InvalidBody(msg.payload)) => objects = tick0
    /\ (msg.type = "INIT" /\ \E i \in 1 .. Len(msg.payload) : InvalidBody(msg.payload[i]))
           => objects = tick0

-----------------------------------------------------------------------------
(* The two-body scenario *)

\* |p - q| >= lim for points p, q and a limit lim of at most 2.5 units
DistGE(p, q, lim) ==
    \/ lim <= 0
    \/ Abs(p[X] - q[X]) >= lim
    \/ Abs(p[Y] - q[Y]) >= lim
    \/ Abs(p[Z] - q[Z]) >= lim
    \/ LET dx == RoundDiv(p[X] - q[X], Coarse)
           dy == RoundDiv(p[Y] - q[Y], Coarse)
           dz == RoundDiv(p[Z] - q[Z], Coarse)
           limC == lim \div Coarse
       IN dx * dx + dy * dy + dz * dz >= limC * limC

\* |p - q| <= lim
DistLE(p, q, lim) ==
    /\ Abs(p[X] - q[X]) <= lim
    /\ Abs(p[Y] - q[Y]) <= lim
    /\ Abs(p[Z] - q[Z]) <= lim
    /\ LET dx == RoundDiv(p[X] - q[X], Coarse)
           dy == RoundDiv(p[Y] - q[Y], Coarse)
           dz == RoundDiv(p[Z] - q[Z], Coarse)
           limC == (lim \div Coarse) + 1
       IN dx * dx + dy * dy + dz * dz <= limC * limC

\* two bodies of radius 1 and equal inverse mass, at rest, centers 1.5 apart on
\* a horizontal line, at least 10 units clear of the floor and the walls
PairScenario(objs) ==
    /\ Len(objs) = 2
    /\ \A i \in 1 .. 2 :
          /\ objs[i].radius = Scale
          /\ objs[i].vel = << 0, 0, 0 >>
          /\ objs[i].pos[Y] >= 11 * Scale
          /\ Abs(objs[i].pos[X]) <= World - 10 * Scale
          /\ Abs(objs[i].pos[Z]) <= World - 10 * Scale
    /\ objs[1].invMass = objs[2].invMass
    /\ objs[1].pos[Y] = objs[2].pos[Y]
    /\ DistGE(objs[1].pos, objs[2].pos, 1500 * Milli)
    /\ DistLE(objs[1].pos, objs[2].pos, 1500 * Milli)

(* C7 (as claimed): after exactly one STEP on the two-body scenario each body
   has moved 0.25 within Eps and the separation is 2.0 within Eps. *)
C7_SeparationIsTwo ==
    (StepDone /\ PairScenario(tick0)) =>
        /\ DistGE(objects[1].pos, objects[2].pos, 2 * Scale - Eps)
        /\ DistLE(objects[1].pos, objects[2].pos, 2 * Scale + Eps)
        /\ \A i \in 1 .. 2 :
              /\ DistGE(objects[i].pos, tick0[i].pos, 250 * Milli - Eps)
              /\ DistLE(objects[i].pos, tick0[i].pos, 250 * Milli + Eps)

(* C7 (amended): after exactly one STEP on the two-body scenario (centers on a
   horizontal line, clear of floor and walls) the displacements of the two
   bodies mirror each other (opposite in x and z, equal in y, within Eps),
   each body has moved at least 0.25 - Eps, and the separation is at least
   2.0 - Eps; the separation is not held at 2.0. *)
C7_SymmetricSeparation ==
    (StepDone /\ PairScenario(tick0)) =>
        LET d(i, k) == objects[i].pos[k] - tick0[i].pos[k]
        IN /\ Abs(d(1, X) + d(2, X)) <= Eps
           /\ Abs(d(1, Z) + d(2, Z)) <= Eps
           /\ Abs(d(1, Y) - d(2, Y)) <= Eps
           /\ DistGE(objects[1].pos, objects[2].pos, 2 * Scale - Eps)
           /\ \A i \in 1 .. 2 :
                 DistGE(objects[i].pos, tick0[i].pos, 250 * Milli - Eps)

\* one STEP has ended on the two-body scenario and the bodies have moved
C7_Witness ==
    /\ StepDone /\ PairScenario(tick0)
    /\ objects[1].pos # tick0[1].pos
    /\ objects[2].pos # tick0[2].pos

-----------------------------------------------------------------------------
(* Velocity reconstruction *)

(* C9: every pass of the substep loop leaves each body with prevPos equal to
   its position at the start of the pass and with each velocity component
   equal to (pos - prevPos) / h, or to exactly 0 when that quotient is below
   0.001 in magnitude; no body leaves a substep with a nonzero velocity
   component below 0.001. *)
C9_VelocityReconstructed ==
    [][ (pc = "step" /\ s' = s + 1) =>
          \A i \in 1 .. Len(objects') :
              /\ objects'[i].prevPos = objects[i].pos
              /\ \A k \in 1 .. 3 :
                    LET q == OverH(objects'[i].pos[k] - objects[i].pos[k],
                                   EffectiveDt(msg.payload))
                    IN /\ objects'[i].vel[k] = (IF Abs(q) < SnapBelow THEN 0 ELSE q)
                       /\ objects'[i].vel[k] = 0 \/ Abs(objects'[i].vel[k]) >= SnapBelow
      ]_vars

\* a substep has ended with a body that moved along an axis and has velocity 0
\* on it (the snap), and with a body whose reconstructed velocity is not 0
C9_Witness ==
    /\ pc = "step" /\ s >= 1
    /\ \E i \in Bodies : objects[i].pos[Y] # objects[i].prevPos[Y] /\ objects[i].vel[Y] = 0
    /\ \E i \in Bodies : \E k \in 1 .. 3 : objects[i].vel[k] # 0

-----------------------------------------------------------------------------
(* The time step of a STEP *)

\* the STEP payload has no dt, or a dt that is zero or negative
NonPositiveDt(payload) == "dt" \notin DOMAIN payload \/ payload.dt <= 0

(* C11 (as claimed): a STEP whose dt is absent, zero or negative advances the
   store with dt = 1.0 (h = 1/12), so it ends where a STEP with dt = 1.0 on
   the same store ends; a non-positive dt is never the integration step. *)
C11_DtDefaulting ==
    (StepDone /\ NonPositiveDt(msg.payload)) => objects = Advance(tick0, DtDen, 0)

-----------------------------------------------------------------------------
(* EXPLOSION *)

(* C12: an EXPLOSION leaves the number of bodies and every body's pos,
   prevPos, radius and invMass as they were, and adds to each velocity a
   perturbation whose x and z components lie in [-1.75, 1.75] and whose y
   component lies in [0, 5.25]: no vertical velocity is decreased. *)
C12_ImpulseFrame ==
    msg.type = "EXPLOSION" =>
        /\ N = Len(tick0)
        /\ \A i \in Bodies :
              /\ objects[i].pos = tick0[i].pos
              /\ objects[i].prevPos = tick0[i].prevPos
              /\ objects[i].radius = tick0[i].radius
              /\ objects[i].invMass = tick0[i].invMass
              /\ Abs(objects[i].vel[X] - tick0[i].vel[X]) <= 1750 * Milli
              /\ Abs(objects[i].vel[Z] - tick0[i].vel[Z]) <= 1750 * Milli
              /\ objects[i].vel[Y] - tick0[i].vel[Y] >= 0
              /\ objects[i].vel[Y] - tick0[i].vel[Y] <= 5250 * Milli

\* an EXPLOSION has acted on two or more bodies, one of them falling before it,
\* one pushed by almost the full 1.75 along x, one not pushed upwards at all
C12_Witness ==
    /\ msg.type = "EXPLOSION" /\ N >= 2
    /\ \E i \in Bodies : tick0[i].vel[Y] < 0 /\ objects[i].vel[Y] > tick0[i].vel[Y]
    /\ \E i \in Bodies : objects[i].vel[X] - tick0[i].vel[X] >= 1749 * Milli
    /\ \E i \in Bodies : objects[i].vel[Y] = tick0[i].vel[Y]
                          /\ objects[i].vel[X] # tick0[i].vel[X]

-----------------------------------------------------------------------------
(* Friction and restitution *)

\* v multiplied by FRICTION once in each of the iterations
RECURSIVE Attenuated(_, _)
Attenuated(v, it) ==
    IF it >= iterations THEN v ELSE Attenuated(MulFrac(v, FRICTION, 100), it + 1)

(* C16 (as claimed): a body whose predicted position in a substep (of a STEP
   with a positive dt) is below the floor leaves that substep with its horizontal velocity components
   multiplied by 0.95 in each of the 4 iterations: 0.95^4 times the damped
   velocity it was predicted with, within Eps. *)
C16_FloorFriction ==
    [][ (pc = "step" /\ s' = s + 1 /\ EffectiveDt(msg.payload) > 0) =>
          \A i \in 1 .. Len(objects) :
              LET p == Predict(objects[i], EffectiveDt(msg.payload))
              IN (p.pos[Y] < p.radius) =>
                    /\ Abs(objects'[i].vel[X] - Attenuated(p.vel[X], 0)) <= Eps
                    /\ Abs(objects'[i].vel[Z] - Attenuated(p.vel[Z], 0)) <= Eps
      ]_vars

(* C17 (as claimed): a body whose predicted |pos.x| (|pos.z|) exceeds
   WORLD_SIZE in a substep (of a STEP with a positive dt) leaves that substep with the coordinate clamped to
   +25 or -25 by its sign and with its velocity on that axis reflected: -0.5
   times the velocity it reached the wall with, within Eps, pointing away from
   the wall. *)
C17_WallRestitution ==
    [][ (pc = "step" /\ s' = s + 1 /\ EffectiveDt(msg.payload) > 0) =>
          \A i \in 1 .. Len(objects) :
              LET p == Predict(objects[i], EffectiveDt(msg.payload))
              IN \A k \in { X, Z } :
                    (Abs(p.pos[k]) > World) =>
                        /\ Abs(objects'[i].pos[k] - Sign(p.pos[k]) * World) <= Eps
                        /\ Abs(objects'[i].vel[k] + RoundDiv(p.vel[k], 2)) <= Eps
                        /\ objects'[i].vel[k] * Sign(p.pos[k]) < 0
      ]_vars

-----------------------------------------------------------------------------
(* The UPDATE message *)

(* C10: a STEP posts exactly one UPDATE, when its substep loop is over: its
   positions array has 3n entries and entries 3i, 3i+1, 3i+2 are body i's
   position in store order; no other step posts, and no step changes a
   message already posted. *)
C10_UpdatePerStep ==
    [][ /\ (ncmd' = ncmd + 1 /\ msg'.type = "STEP") => (pc' = "step" /\ sent' = sent)
        /\ (pc = "idle" /\ pc' = "step") => msg'.type = "STEP"
        /\ (pc = "step" /\ pc' = "idle") =>
              /\ s = substeps
              /\ Len(sent') = Len(sent) + 1
              /\ sent'[Len(sent')].type = "UPDATE"
              /\ Len(sent'[Len(sent')].positions) = 3 * Len(objects')
              /\ \A i \in 1 .. Len(objects') : \A k \in 1 .. 3 :
                    sent'[Len(sent')].positions[3 * (i - 1) + k] = objects'[i].pos[k]
        /\ (pc' = pc) => sent' = sent
        /\ \A j \in 1 .. Len(sent) : j <= Len(sent') /\ sent'[j] = sent[j]
      ]_vars

\* two UPDATEs have been posted, the earlier one differing from the store
C10_Witness ==
    /\ StepDone /\ Len(sent) = 2 /\ N >= 2
    /\ sent[2].positions = Positions(objects, 1)
    /\ sent[1].positions # sent[2].positions

-----------------------------------------------------------------------------
(* The pair correction as a function of its inputs: the pair pass applied once
   to two overlapping bodies of any inverse masses *)

InvMasses == { 0, 1, 2 }

Offsets ==
    { P(1500, 0, 0), P(0, 1500, 0), P(0, 0, -1500), P(900, 0, 1200), P(-600, 800, 0),
      P(1000, 1000, 1000), P(500, 0, 0), P(1200, -1200, 600), P(2500, 0, 0) }

InitPair ==
    /\ \E wa \in InvMasses, wb \in InvMasses, off \in Offsets :
          /\ wa + wb > 0
          /\ objects =
               << [pos |-> P(1000, 20000, -2000), prevPos |-> P(1000, 20000, -2000),
                   vel |-> P(0, 0, 0), radius |-> Scale, invMass |-> wa],
                  [pos |-> << 1000 * Milli + off[X], 20000 * Milli + off[Y],
                              -2000 * Milli + off[Z] >>,
                   prevPos |-> P(1000, 20000, -2000),
                   vel |-> P(0, 0, 0), radius |-> Scale, invMass |-> wb] >>
    /\ msg = [type |-> "NONE"]
    /\ pc = "pair"
    /\ s = 0
    /\ sent = <<>>
    /\ tick0 = <<>>
    /\ ncmd = 0
    /\ NoMain

\* one pass of the pair loops (lines 101-131) over the two bodies
PairPass ==
    /\ pc = "pair"
    /\ objects' = PairAll(objects, 1, 2)
    /\ tick0' = objects
    /\ pc' = "paired"
    /\ UNCHANGED <<msg, s, sent, ncmd, mainVars>>

NextPair == PairPass

SpecPair == InitPair /\ [][NextPair]_vars

\* the pair test of line 111 passes for a and b
Overlapping(a, b) ==
    /\ Near(a, b)
    /\ DistSqC(a, b) > DistSqMin
    /\ LET minC == RoundDiv(a.radius + b.radius, Coarse)
       IN DistSqC(a, b) < minC * minC

(* C8: when the pair pass resolves an overlapping pair (a, b) with inverse
   masses wa, wb (wa + wb > 0), a is displaced away from b and b away from a
   along the line of centers, the displacements are in ratio wa : wb on every
   axis, they add up to the overlap (the centers end radius_a + radius_b apart
   within Eps), and a body of inverse mass 0 is not displaced. *)
C8_MassWeighted ==
    (pc = "paired" /\ Overlapping(tick0[1], tick0[2])) =>
        LET a0 == tick0[1]
            b0 == tick0[2]
            a  == objects[1]
            b  == objects[2]
        IN /\ \A k \in 1 .. 3 :
                 LET da == a.pos[k] - a0.pos[k]
                     db == b.pos[k] - b0.pos[k]
                     n  == Sign(b0.pos[k] - a0.pos[k])
                 IN /\ Abs(da * b0.invMass + db * a0.invMass) <= 4
                    /\ Sign(da) * n <= 0
                    /\ Sign(db) * n >= 0
           /\ DistGE(a.pos, b.pos, a0.radius + b0.radius - Eps)
           /\ DistLE(a.pos, b.pos, a0.radius + b0.radius + Eps)
           /\ a0.invMass = 0 => a.pos = a0.pos
           /\ b0.invMass = 0 => b.pos = b0.pos

\* a pair with inverse masses 2 : 1 has been resolved, both bodies displaced
C8_Witness ==
    /\ pc = "paired" /\ Overlapping(tick0[1], tick0[2])
    /\ tick0[1].invMass = 2 /\ tick0[2].invMass = 1
    /\ objects[1].pos # tick0[1].pos
    /\ objects[2].pos # tick0[2].pos

-----------------------------------------------------------------------------
(* The rest scenario: one body, STEP with dt = 1.0 every frame (animate,
   line 382), each UPDATE taken by the main thread (worker.onmessage, line 362) *)

InitRest ==
    /\ objects = InitBodies(OneBody, 1)
    /\ msg = [type |-> "INIT"]
    /\ pc = "idle"
    /\ s = 0
    /\ sent = <<>>
    /\ tick0 = <<>>
    /\ ncmd = 1
    /\ NoMain

\* animate posts STEP with dt: 1.0 (line 382); the worker runs the whole handler
FramePayload == [dt |-> DtDen]

FrameStep ==
    /\ pc = "idle"
    /\ sent = <<>>
    /\ msg' = [type |-> "STEP", payload |-> FramePayload]
    /\ tick0' = objects
    /\ objects' = Advance(objects, EffectiveDt(FramePayload), 0)
    /\ sent' = << [type |-> "UPDATE", positions |-> Positions(objects', 1)] >>
    /\ s' = substeps
    /\ UNCHANGED <<pc, ncmd, mainVars>>

\* the main thread takes the oldest UPDATE (lines 362-374)
TakeUpdate ==
    /\ sent # <<>>
    /\ sent' = Tail(sent)
    /\ UNCHANGED <<objects, msg, pc, s, tick0, ncmd, mainVars>>

NextRest == FrameStep \/ TakeUpdate

\* ENABLED <<FrameStep>>_vars, written out: FrameStep always changes sent
FrameReady == pc = "idle" /\ sent = <<>>

\* requestAnimationFrame keeps calling animate and the event loops keep
\* delivering messages: weak fairness of TakeUpdate and of FrameStep, the
\* latter as <>[]FrameReady => []<><<FrameStep>>_vars
SpecRest ==
    /\ InitRest /\ [][NextRest]_vars
    /\ WF_vars(TakeUpdate)
    /\ ([]<>(~FrameReady) \/ []<><<FrameStep>>_vars)

(* C6: from one body at [0,10,0] at rest with radius 1, under STEP(dt = 1.0)
   after STEP, from some tick on the body's height is within Eps of 1.0 at the
   end of every STEP. *)
C6_ComesToRest ==
    <>[](pc = "idle" => Abs(objects[1].pos[Y] - Scale) <= Eps)

\* a STEP has ended with the body on the floor, at rest
C6_Witness ==
    /\ StepDone
    /\ objects[1].pos[Y] = Scale
    /\ objects[1].vel = << 0, 0, 0 >>
    /\ tick0[1].pos[Y] = Scale

-----------------------------------------------------------------------------
(* RESET on a store above and below 35 bodies *)

MaxCrowdCmds == 6

\* the i-th body of an initial population: a grid, every body moving
CrowdBody(i) ==
    [pos |-> P(((i % 5) - 2) * 1200, 15000 + 600 * i, (((i \div 5) % 5) - 2) * 1200),
     vel |-> P(10 * i, -100, -10 * i),
     radius |-> Scale]

RECURSIVE CrowdPayload(_)
CrowdPayload(n) == IF n = 0 THEN <<>> ELSE Append(CrowdPayload(n - 1), CrowdBody(n))

CrowdSizes == { 34, 35, 36, 40 }

\* the payloads a caller may put on a RESET message
ResetPayloads ==
    { [baseline_count |-> 10], [baseline_count |-> 35], [baseline_count |-> 40] }

InitReset ==
    /\ \E n \in CrowdSizes : objects = InitBodies(CrowdPayload(n), 1)
    /\ msg = [type |-> "INIT"]
    /\ pc = "idle"
    /\ s = 0
    /\ sent = <<>>
    /\ tick0 = <<>>
    /\ ncmd = 0
    /\ NoMain

CrowdReceive(m) ==
    /\ pc = "idle"
    /\ ncmd < MaxCrowdCmds
    /\ msg' = m
    /\ tick0' = objects
    /\ ncmd' = ncmd + 1
    /\ UNCHANGED <<pc, s, sent, mainVars>>

\* spawnParticle's message (lines 280-287)
CrowdSpawn ==
    /\ CrowdReceive([type |-> "SPAWN",
                     payload |-> [pos |-> P(500, 25000, -500), vel |-> P(50, -100, -50),
                                  radius |-> Scale]])
    /\ objects' = SpawnBody(objects, msg'.payload)

\* resetState's message (line 431), with no payload
CrowdReset ==
    \E seed \in Seeds :
        /\ CrowdReceive([type |-> "RESET", seed |-> seed])
        /\ objects' = ResetBodies(objects, seed)

\* a RESET that carries a baseline_count
CrowdResetTo ==
    \E seed \in Seeds, payload \in ResetPayloads :
        /\ CrowdReceive([type |-> "RESET", seed |-> seed, payload |-> payload])
        /\ objects' = ResetBodies(objects, seed)

NextReset == CrowdSpawn \/ CrowdReset \/ CrowdResetTo

SpecReset == InitReset /\ [][NextReset]_vars

Min(a, b) == IF a < b THEN a ELSE b

\* velocity zero and position in the spawn volume
Respawned(obj) ==
    /\ obj.vel = << 0, 0, 0 >>
    /\ Abs(obj.pos[X]) <= 2500 * Milli
    /\ Abs(obj.pos[Z]) <= 2500 * Milli
    /\ obj.pos[Y] >= 10 * Scale
    /\ obj.pos[Y] <= 30 * Scale

(* C4 (as claimed): after a RESET carrying baseline_count the store holds
   exactly min(n, baseline_count) of the n bodies it held, each with velocity
   zero and its position in the spawn volume. *)
C4_ResetToBaseline ==
    (msg.type = "RESET" /\ "payload" \in DOMAIN msg) =>
        /\ N = Min(Len(tick0), msg.payload.baseline_count)
        /\ \A i \in Bodies : Respawned(objects[i])

(* C4 (amended): after any RESET, whatever it carries, the store holds exactly
   min(n, 35) bodies, the first min(n, 35) of the n it held, each with
   velocity zero and its position in the spawn volume. *)
C4_ResetKeeps35 ==
    msg.type = "RESET" =>
        /\ N = Min(Len(tick0), 35)
        /\ \A i \in Bodies :
              /\ Respawned(objects[i])
              /\ objects[i].radius = tick0[i].radius
              /\ objects[i].invMass = tick0[i].invMass

\* 40 bodies, 5 spawned, RESET with baseline_count 35: 35 bodies are left
C4_Witness ==
    /\ msg.type = "RESET" /\ "payload" \in DOMAIN msg
    /\ msg.payload.baseline_count = 35
    /\ Len(tick0) = 45
    /\ N = 35
    /\ tick0[1].vel # << 0, 0, 0 >>

-----------------------------------------------------------------------------
(* The worker behind its message port: postMessage queues a message, and
   self.onmessage handles the oldest one when the handler before it has
   returned (lines 22-175: the handler has no await and posts only at the end
   of STEP) *)

MaxPosts == 3

\* the number of messages posted so far; a message's seq is its place in the
\* order of posting (history)
Posts == ncmd + Len(posted)

\* the handler of the message before has returned
WorkerFreeAlways == TRUE
WorkerFree == pc = "idle"

\* the event loop calls self.onmessage with the oldest queued message, here
\* one of the given type: const { type, payload } = e.data; switch (type)
Take(type) ==
    /\ WorkerFree
    /\ posted # <<>>
    /\ Head(posted).type = type
    /\ posted' = Tail(posted)
    /\ msg' = Head(posted)
    /\ tick0' = objects
    /\ ncmd' = ncmd + 1

\* the meshes made with the bodies of an INIT payload, in payload order
RECURSIVE Owners(_)
Owners(n) == IF n = 0 THEN <<>> ELSE Append(Owners(n - 1), n)

\* the mesh made with the body of a SPAWN message (0: none)
OwnerOf(m) == IF "mesh" \in DOMAIN m THEN m.mesh ELSE 0

OnInit ==
    /\ Take("INIT")
    /\ objects' = InitBodies(msg'.payload, 1)
    /\ owner' = Owners(Len(msg'.payload))
    /\ UNCHANGED <<pc, s, sent, meshes>>

OnSpawn ==
    /\ Take("SPAWN")
    /\ objects' = SpawnBody(objects, msg'.payload)
    /\ owner' = Append(owner, OwnerOf(msg'))
    /\ UNCHANGED <<pc, s, sent, meshes>>

\* case 'STEP' up to the substep loop; SubstepLoop and PostUpdate are the rest
OnStep ==
    /\ Take("STEP")
    /\ pc' = "step"
    /\ s' = 0
    /\ UNCHANGED <<objects, sent, meshes, owner>>

OnExplosion ==
    \E seed \in Seeds :
        /\ Take("EXPLOSION")
        /\ objects' = ExplodeAll(objects, seed, 1)
        /\ UNCHANGED <<pc, s, sent, meshes, owner>>

OnReset ==
    \E seed \in Seeds :
        /\ Take("RESET")
        /\ objects' = ResetBodies(objects, seed)
        /\ owner' = Truncate(owner)
        /\ UNCHANGED <<pc, s, sent, meshes>>

\* postMessage from the other side of the port: the message joins the queue
Post(m) ==
    /\ Posts < MaxPosts + 1
    /\ posted' = Append(posted, m)
    /\ UNCHANGED <<objects, msg, pc, s, sent, tick0, ncmd, meshes, owner>>

PostStep ==
    \E payload \in { [dt |-> DtDen], [dt |-> 1] } :
        Post([type |-> "STEP", payload |-> payload, seq |-> Posts + 1])

PostSpawn ==
    Post([type |-> "SPAWN", seq |-> Posts + 1,
          payload |-> [pos |-> P(500, 25000, -500), vel |-> P(50, -100, -50),
                       radius |-> Scale]])

PostExplosion == Post([type |-> "EXPLOSION", seq |-> Posts + 1])

PostReset == Post([type |-> "RESET", seq |-> Posts + 1])

\* a fresh worker with its INIT message queued (line 357)
InitQueue ==
    /\ objects = <<>>
    /\ msg = [type |-> "NONE", seq |-> 0]
    /\ pc = "idle"
    /\ s = 0
    /\ sent = <<>>
    /\ tick0 = <<>>
    /\ ncmd = 0
    /\ \E payload \in { PairX, Thrown } :
          posted = << [type |-> "INIT", payload |-> payload, seq |-> 1] >>
    /\ meshes = <<>>
    /\ owner = <<>>

NextQueue ==
    \/ OnInit \/ OnSpawn \/ OnStep \/ SubstepLoop \/ PostUpdate \/ OnExplosion \/ OnReset
    \/ PostStep \/ PostSpawn \/ PostExplosion \/ PostReset

SpecQueue == InitQueue /\ [][NextQueue]_vars

(* C13: whatever the main thread posts and whenever it posts it, the worker
   takes one message at a time, the oldest first and only when the handler
   before it has returned: the k-th message handled is the k-th posted; while
   a STEP is in its substep loop the store changes only by that STEP's own
   substeps, its body count is fixed, and the loop ends after 12 substeps with
   the UPDATE posted before the next message is taken. *)
C13_AtomicTick ==
    [][ /\ (ncmd' # ncmd) =>
              /\ pc = "idle"
              /\ ncmd' = ncmd + 1
              /\ posted # <<>>
              /\ msg' = Head(posted)
              /\ posted' = Tail(posted)
              /\ msg'.seq = ncmd'
        /\ (ncmd' = ncmd) => msg' = msg
        /\ (pc = "step") =>
              /\ msg.type = "STEP"
              /\ Len(objects') = Len(objects)
              /\ \/ objects' = objects
                 \/ /\ s' = s + 1
                    /\ objects' = Substep(objects, EffectiveDt(msg.payload))
        /\ (pc = "step" /\ pc' = "idle") =>
              /\ s = substeps
              /\ Len(sent') = Len(sent) + 1
        /\ (pc = "idle" /\ objects' # objects) => ncmd' = ncmd + 1
      ]_vars

\* a STEP is between two substeps while a RESET and a SPAWN posted after it wait
C13_Witness ==
    /\ pc = "step" /\ s = 6 /\ N >= 2
    /\ Len(posted) = 2
    /\ posted[1].type = "RESET"
    /\ posted[2].type = "SPAWN"

-----------------------------------------------------------------------------
(* The life of a body: SPAWN, STEP, EXPLOSION and RESET on a store that is
   one body above the 35 a RESET keeps *)

MaxLifeCmds == 3

\* the i-th body of the population: a grid with 2.5 between neighbours in x
\* and z and 6 in y, inside the volume initialData draws from (line 345), the
\* radii all different so that a body can be told from its neighbours
LifeBody(i) ==
    [pos |-> P((((i - 1) % 3) - 1) * 2500,
               16000 + 6000 * (((i - 1) \div 9) % 4),
               ((((i - 1) \div 3) % 3) - 1) * 2500),
     vel |-> P(0, 0, 0),
     radius |-> (900 + 2 * i) * Milli]

RECURSIVE LifePayload(_)
LifePayload(n) == IF n = 0 THEN <<>> ELSE Append(LifePayload(n - 1), LifeBody(n))

InitLife ==
    /\ objects = InitBodies(LifePayload(ResetKeep + 1), 1)
    /\ msg = [type |-> "INIT"]
    /\ pc = "idle"
    /\ s = 0
    /\ sent = <<>>
    /\ tick0 = <<>>
    /\ ncmd = 0
    /\ NoMain

LifeReceive(m) ==
    /\ pc = "idle"
    /\ ncmd < MaxLifeCmds
    /\ msg' = m
    /\ tick0' = objects
    /\ ncmd' = ncmd + 1
    /\ UNCHANGED <<pc, s, mainVars>>

LifeSpawn ==
    /\ LifeReceive([type |-> "SPAWN",
                    payload |-> [pos |-> P(500, 25000, -500), vel |-> P(50, -100, -50),
                                 radius |-> Scale]])
    /\ objects' = SpawnBody(objects, msg'.payload)
    /\ UNCHANGED sent

\* the whole of case 'STEP' (lines 46-154), with dt: 1.0
LifeStep ==
    /\ LifeReceive([type |-> "STEP", payload |-> FramePayload])
    /\ objects' = Advance(objects, EffectiveDt(FramePayload), 0)
    /\ sent' = Append(sent, [type |-> "UPDATE", positions |-> Positions(objects', 1)])

LifeExplosion ==
    \E seed \in Seeds :
        /\ LifeReceive([type |-> "EXPLOSION", seed |-> seed])
        /\ objects' = ExplodeAll(objects, seed, 1)
        /\ UNCHANGED sent

LifeReset ==
    /\ LifeReceive([type |-> "RESET", seed |-> 0])
    /\ objects' = ResetBodies(objects, 0)
    /\ UNCHANGED sent

NextLife == LifeSpawn \/ LifeStep \/ LifeExplosion \/ LifeReset

SpecLife == InitLife /\ [][NextLife]_vars

(* C14: SPAWN adds exactly one body, last in the store, and leaves every body
   that was there as it was, at any body count (none is refused: there is no
   upper bound); STEP and EXPLOSION leave the count and the order of the store
   as they were; RESET keeps a prefix of the store in its order; and the count
   drops only by a RESET. *)
C14_BodyLifecycle ==
    /\ msg.type = "SPAWN" =>
          /\ N = Len(tick0) + 1
          /\ \A i \in 1 .. Len(tick0) : objects[i] = tick0[i]
          /\ objects[N].pos = msg.payload.pos
          /\ objects[N].vel = msg.payload.vel
          /\ objects[N].radius = msg.payload.radius
    /\ msg.type \in { "STEP", "EXPLOSION" } =>
          /\ N = Len(tick0)
          /\ \A i \in Bodies : /\ objects[i].radius = tick0[i].radius
                                /\ objects[i].invMass = tick0[i].invMass
    /\ msg.type = "RESET" =>
          /\ N <= Len(tick0)
          /\ \A i \in Bodies : /\ objects[i].radius = tick0[i].radius
                                /\ objects[i].invMass = tick0[i].invMass
    /\ N < Len(tick0) => msg.type = "RESET"

\* a 37th body was spawned, a STEP ran on the 37, and a RESET removed two
C14_Witness ==
    /\ msg.type = "RESET"
    /\ Len(tick0) = ResetKeep + 2
    /\ N = ResetKeep
    /\ Len(sent) = 1
    /\ Len(sent[1].positions) = 3 * (ResetKeep + 2)

-----------------------------------------------------------------------------
(* Messages the switch has no case for, and messages whose payload is missing
   or incomplete *)

MaxOddCmds == 3

\* the handler throws a TypeError before it has written anything: payload is
\* undefined where it is read (lines 27, 38, 47), or an entry's pos or vel is
\* undefined where it is indexed (lines 28-30, 38-40)
Throws(m) ==
    \/ /\ m.type \in { "INIT", "SPAWN", "STEP" }
       /\ "payload" \notin DOMAIN m
    \/ /\ m.type = "SPAWN" /\ "payload" \in DOMAIN m
       /\ ("pos" \notin DOMAIN m.payload \/ "vel" \notin DOMAIN m.payload)
    \/ /\ m.type = "INIT" /\ "payload" \in DOMAIN m
       /\ \E i \in 1 .. Len(m.payload) :
             "pos" \notin DOMAIN m.payload[i] \/ "vel" \notin DOMAIN m.payload[i]

\* self.onmessage as a function of the store: the switch on type (lines 25-174),
\* no case and no default for any other type
OnMessage(objs, m, seed) ==
    IF Throws(m) THEN objs
    ELSE CASE m.type = "INIT" -> InitBodies(m.payload, 1)
           [] m.type = "SPAWN" -> SpawnBody(objs, m.payload)
           [] m.type = "STEP" -> Advance(objs, EffectiveDt(m.payload), 0)
           [] m.type = "EXPLOSION" -> ExplodeAll(objs, seed, 1)
           [] m.type = "RESET" -> ResetBodies(objs, seed)
           [] OTHER -> objs

\* what the handler has posted when it returns or throws (line 153)
OnMessagePosts(objs, m) ==
    IF m.type = "STEP" /\ ~Throws(m)
    THEN << [type |-> "UPDATE", positions |-> Positions(objs, 1)] >>
    ELSE << >>

SpawnPayload == [pos |-> P(500, 25000, -500), vel |-> P(50, -100, -50), radius |-> Scale]

\* messages as the main thread posts them
PlainMessages ==
    { [type |-> "STEP", payload |-> FramePayload],
      [type |-> "SPAWN", payload |-> SpawnPayload],
      [type |-> "EXPLOSION"],
      [type |-> "RESET"] }

\* types the switch has no case for
UnknownMessages ==
    { [type |-> "PAUSE"],
      [type |-> "step", payload |-> FramePayload],
      [type |-> "DELETE", payload |-> [index |-> 1]] }

\* INIT, SPAWN and STEP without a payload
BareMessages == { [type |-> "INIT"], [type |-> "SPAWN"], [type |-> "STEP"] }

\* SPAWN whose payload lacks a field of the body
PartialMessages ==
    { [type |-> "SPAWN", payload |-> [pos |-> SpawnPayload.pos, vel |-> SpawnPayload.vel]],
      [type |-> "SPAWN", payload |-> [vel |-> SpawnPayload.vel, radius |-> Scale]] }

\* INIT payloads: two complete ones, one whose entry lacks vel, one whose
\* second entry lacks radius
OddInitPayloads ==
    { Thrown, PairX,
      << [pos |-> SpawnPayload.pos, radius |-> Scale] >>,
      << SpawnPayload, [pos |-> P(0, 5000, 0), vel |-> P(0, 0, 0)] >> }

\* a fresh worker
InitOdd ==
    /\ objects = <<>>
    /\ msg = [type |-> "NONE"]
    /\ pc = "idle"
    /\ s = 0
    /\ sent = <<>>
    /\ tick0 = <<>>
    /\ ncmd = 0
    /\ NoMain

\* one call of self.onmessage, from the message to the return or the throw
Handle(m, seed) ==
    /\ pc = "idle"
    /\ ncmd < MaxOddCmds
    /\ msg' = m
    /\ tick0' = objects
    /\ ncmd' = ncmd + 1
    /\ objects' = OnMessage(objects, m, seed)
    /\ sent' = sent \o OnMessagePosts(objects', m)

HandlePlain ==
    \E m \in PlainMessages, seed \in Seeds :
        /\ Handle(m, seed)
        /\ UNCHANGED <<pc, s, mainVars>>

HandleInit ==
    \E payload \in OddInitPayloads :
        /\ Handle([type |-> "INIT", payload |-> payload], 0)
        /\ UNCHANGED <<pc, s, mainVars>>

HandleUnknown ==
    \E m \in UnknownMessages :
        /\ Handle(m, 0)
        /\ UNCHANGED <<pc, s, mainVars>>

HandleBare ==
    \E m \in BareMessages :
        /\ Handle(m, 0)
        /\ UNCHANGED <<pc, s, mainVars>>

HandlePartial ==
    \E m \in PartialMessages :
        /\ Handle(m, 0)
        /\ UNCHANGED <<pc, s, mainVars>>

NextOdd == HandleInit \/ HandlePlain \/ HandleUnknown \/ HandleBare \/ HandlePartial

SpecOdd == InitOdd /\ [][NextOdd]_vars

\* type is none of the five commands
UnknownType(m) == m.type \notin { "INIT", "SPAWN", "STEP", "EXPLOSION", "RESET" }

\* a payload entry lacks a field of the body
Incomplete(obj) ==
    "pos" \notin DOMAIN obj \/ "vel" \notin DOMAIN obj \/ "radius" \notin DOMAIN obj

\* the payload a command needs is missing, or lacks a field of the body
Malformed(m) ==
    \/ m.type \in { "INIT", "SPAWN", "STEP" } /\ "payload" \notin DOMAIN m
    \/ m.type = "SPAWN" /\ "payload" \in DOMAIN m /\ Incomplete(m.payload)
    \/ /\ m.type = "INIT" /\ "payload" \in DOMAIN m
       /\ \E i \in 1 .. Len(m.payload) : Incomplete(m.payload[i])

(* C15 (as claimed): a message of unknown type, or one whose payload is
   malformed, leaves the store exactly as it was and posts nothing, and the
   worker is then ready for the next message. *)
C15_InvalidCommandRejected ==
    (ncmd > 0 /\ (UnknownType(msg) \/ Malformed(msg))) =>
        /\ objects = tick0
        /\ pc = "idle"

-----------------------------------------------------------------------------
(* The main thread (EngineView, lines 251-432) and the worker: the meshes, the
   Spawn and Reset buttons, the frame loop, and the UPDATE handler *)

MaxEvents == 4

\* const sphereCount = 35 (line 331)
sphereCount == 35
\* meshesRef.current.slice(0, 35) (lines 427-429)
MeshKeep == 35

\* initialData (lines 333-355): entry i, placed on a grid inside the volume the
\* positions are drawn from, radius 1.0, at rest
InitialBody(i) == [LifeBody(i) EXCEPT !.radius = Scale]

RECURSIVE initialData(_)
initialData(n) == IF n = 0 THEN <<>> ELSE Append(initialData(n - 1), InitialBody(n))

\* a mesh: id stands for the object itself, position for mesh.position, and
\* shows is history, the mesh whose body's position was last set on it
NewMesh(id, pos) == [id |-> id, position |-> pos, shows |-> id]

RECURSIVE InitialMeshes(_)
InitialMeshes(n) ==
    IF n = 0 THEN <<>>
    ELSE Append(InitialMeshes(n - 1), NewMesh(n, InitialBody(n).pos))

\* the effect has run (lines 290-400): 35 meshes, the worker created, INIT
\* posted, and animate called once
InitMain ==
    /\ objects = <<>>
    /\ msg = [type |-> "NONE", seq |-> 0]
    /\ pc = "idle"
    /\ s = 0
    /\ sent = <<>>
    /\ tick0 = <<>>
    /\ ncmd = 0
    /\ meshes = InitialMeshes(sphereCount)
    /\ posted = << [type |-> "INIT", payload |-> initialData(sphereCount), seq |-> 1],
                   [type |-> "STEP", payload |-> FramePayload, seq |-> 2] >>
    /\ owner = <<>>

\* a click or a frame: the main thread runs one of its callbacks
Event == Posts < MaxEvents + 2

\* spawnParticle (lines 260-288)
ClickSpawn ==
    /\ Event
    /\ LET id  == sphereCount + Posts
           pos == P(500, 25000, -500)
       IN /\ meshes' = Append(meshes, NewMesh(id, pos))
          /\ posted' = Append(posted,
                 [type |-> "SPAWN", seq |-> Posts + 1, mesh |-> id,
                  payload |-> [pos |-> pos, vel |-> P(50, -100, -50), radius |-> Scale]])
    /\ UNCHANGED <<objects, msg, pc, s, sent, tick0, ncmd, owner>>

\* resetState (lines 425-432)
ClickReset ==
    /\ Event
    /\ meshes' = SubSeq(meshes, 1, Min(Len(meshes), MeshKeep))
    /\ posted' = Append(posted, [type |-> "RESET", seq |-> Posts + 1])
    /\ UNCHANGED <<objects, msg, pc, s, sent, tick0, ncmd, owner>>

\* animate (lines 376-398)
Animate ==
    /\ Event
    /\ posted' = Append(posted, [type |-> "STEP", payload |-> FramePayload, seq |-> Posts + 1])
    /\ UNCHANGED <<objects, msg, pc, s, sent, tick0, ncmd, meshes, owner>>

\* const count = Math.min(meshesRef.current.length, positions.length / 3)
UpdateCount(ms, positions) == Min(Len(ms), Len(positions) \div 3)

\* worker.onmessage (lines 362-374) on the oldest UPDATE
DeliverUpdate ==
    /\ sent # <<>>
    /\ LET u == Head(sent)
           count == UpdateCount(meshes, u.positions)
       IN meshes' =
            [i \in 1 .. Len(meshes) |->
               IF i <= count
               THEN [meshes[i] EXCEPT
                       !.position = << u.positions[3 * (i - 1) + 1],
                                       u.positions[3 * (i - 1) + 2],
                                       u.positions[3 * (i - 1) + 3] >>,
                       !.shows = u.owners[i]]
               ELSE meshes[i]]
    /\ sent' = Tail(sent)
    /\ UNCHANGED <<objects, msg, pc, s, tick0, ncmd, posted, owner>>

NextMain ==
    \/ ClickSpawn \/ ClickReset \/ Animate \/ DeliverUpdate
    \/ OnInit \/ OnSpawn \/ OnStep \/ SubstepLoop \/ PostUpdate \/ OnReset

SpecMain == InitMain /\ [][NextMain]_vars

(* C18 (as claimed): for every interleaving of Spawn and Reset clicks, frames
   and UPDATE deliveries, the UPDATE handler stays inside the mesh list and the
   positions array, a mesh is only ever given the position of the body made
   with it, and when every posted message has been handled there are as many
   meshes as bodies. *)
C18_MeshBodyCorrespondence ==
    /\ \A i \in 1 .. Len(meshes) : meshes[i].shows = meshes[i].id
    /\ sent # <<>> =>
          LET count == UpdateCount(meshes, Head(sent).positions)
          IN count <= Len(meshes) /\ 3 * count <= Len(Head(sent).positions)
    /\ (posted = <<>> /\ pc = "idle") => Len(meshes) = N

====
